---- MODULE Spec2Model ----
(***************************************************************************)
(* Model of the Talha-AI front end: the PCM decoder of                     *)
(* services/geminiService.ts (atob, Int16Array view, createBuffer, the     *)
(* sample loop), generateSpeech around it, and the text-to-speech part of  *)
(* the App component (handleGenerateSpeech, toggleAudioPlayback, the       *)
(* AudioBufferSourceNode life cycle and React's commit of state to the     *)
(* closures the handlers run with).                                        *)
(*                                                                         *)
(* A base64 string is a sequence of one-character strings.  A sample is    *)
(* kept as its numerator over 32768: the value n stands for n / 32768.     *)
(***************************************************************************)
EXTENDS Integers, Sequences, FiniteSets, TLC

\* ------------------------------------------------------------------ bounds
MaxLen == 6          \* longest base64 string enumerated by DecodeSpec
MaxDecodes == 2      \* decodeAudio calls on one payload in DecodeSpec
MaxClicks == 3       \* toggleAudioPlayback calls that pass the buffer guard
MaxPending == 2      \* handler instances between their first and last statement
MaxMsg == 2          \* longest message text enumerated by SendSpec
MaxSends == 2        \* handleSendMessage calls that pass the guard
MaxRecordings == 1   \* recordings started by handleTranscribe

\* the characters the enumerated payloads are made of: three alphabet
\* characters, the padding character and one character outside the alphabet
Chars == {"A", "I", "/", "=", "*"}

VARIABLES
  \* App component state (useState) and refs (useRef)
  ttsText, audioBuffer, isPlaying, isLoading, error,
  audioContextRef, sourceNodeRef,
  \* what the last React commit rendered: the values the handlers' closures
  \* and the buttons' disabled / visible conditions see
  view,
  \* the AudioBufferSourceNodes created so far, the number of AudioContexts
  \* constructed, the generateSpeech requests in flight
  nodes, ctxCreated, speechPending,
  \* history: toggle calls so far, the last operation, and the number of
  \* toggle calls made back to back since a settled Idle state
  clicks, last, run,
  \* DecodeSpec: the payload, the decodeAudio calls made on it and the
  \* generateSpeech call made on a response carrying it
  payload, decodes, spoken,
  \* SendSpec: the ChatOptions of one sendMessage call and what the call did
  opts, sent,
  \* chat: the messages shown, the input line and the attached image, the
  \* accepted handleSendMessage calls and those awaiting sendMessage
  chatMessages, chatInput, chatImageAttachment, sends, chatPending,
  \* transcription: recordings started, recorders running, transcribeAudio
  \* requests awaiting their response
  recorded, recording, transPending,
  \* image editor: the form, the result, fileToBase64 reads and editImage
  \* requests awaiting their result
  selectedFile, editMode, customEditPrompt, editedImageUrl,
  editReading, editPending

uiVars == << ttsText, audioBuffer, isPlaying, isLoading, error,
             audioContextRef, sourceNodeRef, view, nodes, ctxCreated,
             speechPending, clicks, last, run >>
decVars == << payload, decodes, spoken >>
sendVars == << opts, sent >>
chatVars == << chatMessages, chatInput, chatImageAttachment, sends,
               chatPending, recorded, recording, transPending, selectedFile,
               editMode, customEditPrompt, editedImageUrl, editReading,
               editPending >>
vars == << ttsText, audioBuffer, isPlaying, isLoading, error,
           audioContextRef, sourceNodeRef, view, nodes, ctxCreated,
           speechPending, clicks, last, run, payload, decodes, spoken,
           opts, sent, chatMessages, chatInput, chatImageAttachment, sends,
           chatPending, recorded, recording, transPending, selectedFile,
           editMode, customEditPrompt, editedImageUrl, editReading,
           editPending >>

\* --------------------------------------------------------------- constants
numChannels == 1
sampleRate == 24000

B64Alphabet ==
  << "A","B","C","D","E","F","G","H","I","J","K","L","M","N","O","P",
     "Q","R","S","T","U","V","W","X","Y","Z","a","b","c","d","e","f",
     "g","h","i","j","k","l","m","n","o","p","q","r","s","t","u","v",
     "w","x","y","z","0","1","2","3","4","5","6","7","8","9","+","/" >>

Whitespace == {" "}

\* ------------------------------------------------------------------- atob
InAlphabet(c) == \E i \in 1..64 : B64Alphabet[i] = c

B64Value(c) == (CHOOSE i \in 1..64 : B64Alphabet[i] = c) - 1

RECURSIVE StripWhitespace(_)
StripWhitespace(s) ==
  IF s = << >> THEN << >>
  ELSE IF Head(s) \in Whitespace THEN StripWhitespace(Tail(s))
  ELSE << Head(s) >> \o StripWhitespace(Tail(s))

\* a string whose length is a multiple of four loses one or two trailing "="
StripPadding(s) ==
  IF Len(s) > 0 /\ Len(s) % 4 = 0 /\ s[Len(s)] = "="
  THEN IF s[Len(s) - 1] = "=" THEN SubSeq(s, 1, Len(s) - 2)
       ELSE SubSeq(s, 1, Len(s) - 1)
  ELSE s

\* the bytes of a padding-free string of alphabet characters: 24 bits per
\* four characters, leftover 12 bits give one byte, leftover 18 bits two
RECURSIVE B64Bytes(_)
B64Bytes(s) ==
  IF Len(s) >= 4 THEN
    LET n == B64Value(s[1]) * 262144 + B64Value(s[2]) * 4096
             + B64Value(s[3]) * 64 + B64Value(s[4])
    IN << n \div 65536, (n \div 256) % 256, n % 256 >>
       \o B64Bytes(SubSeq(s, 5, Len(s)))
  ELSE IF Len(s) = 3 THEN
    LET n == (B64Value(s[1]) * 4096 + B64Value(s[2]) * 64 + B64Value(s[3])) \div 4
    IN << n \div 256, n % 256 >>
  ELSE IF Len(s) = 2 THEN
    << (B64Value(s[1]) * 64 + B64Value(s[2])) \div 16 >>
  ELSE << >>

RECURSIVE DropForeign(_)
DropForeign(s) ==
  IF s = << >> THEN << >>
  ELSE IF InAlphabet(Head(s)) \/ Head(s) = "=" THEN << Head(s) >> \o DropForeign(Tail(s))
  ELSE DropForeign(Tail(s))

\* a lenient decoder that skips characters outside the alphabet
atobLenient(base64) ==
  LET s == StripPadding(DropForeign(base64))
  IN IF Len(s) % 4 = 1 \/ \E i \in 1..Len(s) : ~InAlphabet(s[i])
     THEN [ok |-> FALSE, error |-> "InvalidCharacterError"]
     ELSE [ok |-> TRUE, bytes |-> B64Bytes(s)]

atob(base64) ==
  LET s == StripPadding(StripWhitespace(base64))
  IN IF Len(s) % 4 = 1 \/ \E i \in 1..Len(s) : ~InAlphabet(s[i])
     THEN [ok |-> FALSE, error |-> "InvalidCharacterError"]
     ELSE [ok |-> TRUE, bytes |-> B64Bytes(s)]

\* ------------------------------------------------------------ decodeAudio
\* the same element read high byte first
Int16AtBigEndian(bytes, i) ==
  LET u == 256 * bytes[2 * i + 1] + bytes[2 * i + 2]
  IN IF u >= 32768 THEN u - 65536 ELSE u

\* element i (from 0) of an Int16Array over the bytes: little-endian, signed
Int16At(bytes, i) ==
  LET u == bytes[2 * i + 1] + 256 * bytes[2 * i + 2]
  IN IF u >= 32768 THEN u - 65536 ELSE u

\* new Int16Array(buffer): RangeError unless the byte length is even
Int16Array(bytes) ==
  IF Len(bytes) % 2 # 0
  THEN [ok |-> FALSE, error |-> "RangeError"]
  ELSE [ok |-> TRUE,
        data |-> [i \in 1..(Len(bytes) \div 2) |-> Int16At(bytes, i - 1)]]

Abs(n) == IF n < 0 THEN -n ELSE n

RECURSIVE Shift24(_)
\* the smallest power of two d with |n| / d below 2^24
Shift24(m) == IF m < 16777216 THEN 1 ELSE 2 * Shift24(m \div 2)

\* storing numerator n (value n / 32768) in a Float32Array element: round to
\* 24 significant bits, ties to even
Float32(n) ==
  LET d == Shift24(Abs(n))
      q == Abs(n) \div d
      r == Abs(n) % d
      up == 2 * r > d \/ (2 * r = d /\ q % 2 = 1)
      m == (IF up THEN q + 1 ELSE q) * d
  IN IF n < 0 THEN -m ELSE m

\* createBuffer / new OfflineAudioContext: a length of zero frames is
\* rejected with NotSupportedError
createBuffer(channels, frameCount, rate) ==
  IF frameCount = 0
  THEN [ok |-> FALSE, error |-> "NotSupportedError"]
  ELSE [ok |-> TRUE,
        buffer |-> [numberOfChannels |-> channels, length |-> frameCount,
                    sampleRate |-> rate,
                    channelData |-> [c \in 1..channels |->
                                       [i \in 1..frameCount |-> 0]]]]

OfflineAudioContext(channels, frameCount, rate) ==
  IF frameCount = 0
  THEN [ok |-> FALSE, error |-> "NotSupportedError"]
  ELSE [ok |-> TRUE]

\* the sample loop: channelData[i] = dataInt16[i * numChannels + channel] / 32768
FillSamples(buf, dataInt16) ==
  [buf EXCEPT !.channelData =
     [c \in 1..buf.numberOfChannels |->
        [i \in 1..buf.length |->
           Float32(dataInt16[(i - 1) * numChannels + (c - 1) + 1])]]]

\* a context that allocates at its own rate instead of the decoder's
AllocateAtContextRate(ctx, frameCount) ==
  IF ctx THEN createBuffer(numChannels, frameCount, 2 * sampleRate)
  ELSE LET offlineCtx == OfflineAudioContext(numChannels, frameCount, sampleRate)
       IN IF ~offlineCtx.ok THEN offlineCtx
          ELSE createBuffer(numChannels, frameCount, sampleRate)

\* the destination buffer: from the supplied context, else from a fresh
\* OfflineAudioContext of the same shape
Allocate(ctx, frameCount) ==
  IF ctx THEN createBuffer(numChannels, frameCount, sampleRate)
  ELSE LET offlineCtx == OfflineAudioContext(numChannels, frameCount, sampleRate)
       IN IF ~offlineCtx.ok THEN offlineCtx
          ELSE createBuffer(numChannels, frameCount, sampleRate)

decodeAudio(base64, ctx) ==
  LET bin == atob(base64) IN
  IF ~bin.ok THEN [ok |-> FALSE, error |-> bin.error]
  ELSE
    LET dataInt16 == Int16Array(bin.bytes) IN
    IF ~dataInt16.ok THEN [ok |-> FALSE, error |-> dataInt16.error]
    ELSE
      LET frameCount == Len(dataInt16.data) \div numChannels
          made == Allocate(ctx, frameCount)
      IN IF ~made.ok THEN [ok |-> FALSE, error |-> made.error]
         ELSE [ok |-> TRUE, buffer |-> FillSamples(made.buffer, dataInt16.data)]

\* --------------------------------------------------------- generateSpeech
\* a response is rejected, or carries parts; a part is text or inline data
TextPart == [kind |-> "text"]
DataPart(data) == [kind |-> "inlineData", data |-> data]

\* part.inlineData?.data is truthy: present and not the empty string
HasData(part) == part.kind = "inlineData" /\ part.data # << >>

generateSpeech(response) ==
  IF response.rejected THEN [ok |-> FALSE, error |-> "ApiError"]
  ELSE
    LET parts == response.parts
        found == {i \in 1..Len(parts) : HasData(parts[i])}
    IN IF found = {}
       THEN [ok |-> FALSE, error |-> "No audio data returned from API"]
       ELSE LET first == CHOOSE i \in found : \A j \in found : i <= j
            IN decodeAudio(parts[first].data, FALSE)

\* ------------------------------------------------------------ App: state
Null == << >>
NoError == "null"
SpeechFailed == "Failed to generate speech. Please try again."

Texts == {"", "hello"}

\* payloads a text-to-speech response may carry in Spec: empty, one frame,
\* an odd number of bytes, and two with a character outside the alphabet
\* (alone, and after characters that already encode a whole sample)
UiPayloads ==
  { << >>, <<"A","I","A","=">>, <<"A","A","A","A">>, <<"*">>,
    <<"A","I","A","*">> }

Responses ==
  { [rejected |-> TRUE, parts |-> << >>],
    [rejected |-> FALSE, parts |-> << TextPart >>] }
  \cup { [rejected |-> FALSE, parts |-> << DataPart(p) >>] : p \in UiPayloads }

Snapshot ==
  [audioBuffer |-> audioBuffer, isPlaying |-> isPlaying,
   isLoading |-> isLoading, ttsText |-> ttsText,
   chatInput |-> chatInput, chatImageAttachment |-> chatImageAttachment]

Sounding == {i \in 1..Len(nodes) : nodes[i] = "playing"}
EndedQueued == {i \in 1..Len(nodes) : nodes[i] \in {"finished", "stopped"}}

\* Idle, rendered, with a buffer to play and nothing left over from earlier
\* sessions
Settled ==
  /\ ~isPlaying /\ view = Snapshot /\ audioBuffer # Null
  /\ Sounding = {} /\ EndedQueued = {}

UiInit ==
  /\ ttsText = "" /\ audioBuffer = Null /\ isPlaying = FALSE
  /\ isLoading = FALSE /\ error = NoError
  /\ audioContextRef = 0 /\ sourceNodeRef = 0
  /\ view = [audioBuffer |-> Null, isPlaying |-> FALSE,
             isLoading |-> FALSE, ttsText |-> "",
             chatInput |-> << >>, chatImageAttachment |-> "null"]
  /\ nodes = << >> /\ ctxCreated = 0 /\ speechPending = 0
  /\ clicks = 0 /\ last = [op |-> "init"] /\ run = 0

DecIdle == payload = << >> /\ decodes = << >> /\ spoken = << >>

\* ------------------------------------------------------------ sendMessage
FlashLite == "gemini-2.5-flash-lite"
Flash == "gemini-2.5-flash"
Pro == "gemini-3-pro-preview"
ThinkingBudget == 32768
MessageRequired == "Message or attachment required"

\* String.prototype.trim: whitespace leaves both ends
RECURSIVE TrimStart(_)
TrimStart(s) ==
  IF s # << >> /\ Head(s) \in Whitespace THEN TrimStart(Tail(s)) ELSE s

RECURSIVE TrimEnd(_)
TrimEnd(s) ==
  IF s # << >> /\ s[Len(s)] \in Whitespace
  THEN TrimEnd(SubSeq(s, 1, Len(s) - 1)) ELSE s

trim(s) == TrimEnd(TrimStart(s))

\* thinking ahead of the tools
SelectModelThinkingFirst(model, useSearch, useMaps, thinking) ==
  IF thinking THEN Pro
  ELSE IF useSearch \/ useMaps THEN Flash
  ELSE model

\* model selection override based on tools
SelectModel(model, useSearch, useMaps, thinking) ==
  IF useSearch \/ useMaps THEN Flash
  ELSE IF thinking THEN Pro
  ELSE model

ToolList(useSearch, useMaps) ==
  (IF useSearch THEN << "googleSearch" >> ELSE << >>)
  \o (IF useMaps THEN << "googleMaps" >> ELSE << >>)

\* a budget whenever thinking is requested
WantsThinkingAlways(thinking, activeModel) == thinking

\* if (thinking && activeModel === 'gemini-3-pro-preview')
WantsThinking(thinking, activeModel) == thinking /\ activeModel = Pro

\* the config object: a function from the keys that are set
BuildConfig(tools, thinking, activeModel) ==
  (IF Len(tools) > 0 THEN [tools |-> tools] ELSE << >>)
  @@ (IF WantsThinking(thinking, activeModel)
      THEN [thinkingConfig |-> [thinkingBudget |-> ThinkingBudget]]
      ELSE << >>)

\* a text part for any message that is not empty
HasTextUntrimmed(message) == message # << >>

\* message && message.trim()
HasText(message) == message # << >> /\ trim(message) # << >>

BuildParts(message, images) ==
  (IF HasText(message) THEN << [text |-> message] >> ELSE << >>)
  \o [i \in 1..Len(images) |-> [inlineData |-> [mimeType |-> "image/png",
                                                  data |-> images[i]]]]

\* sendMessage up to its await: either the throw, or the chat created and
\* the one request sent; model "undefined" takes the parameter's default
sendMessage(o) ==
  LET model == IF o.model = "undefined" THEN FlashLite ELSE o.model
      activeModel == SelectModel(model, o.useSearch, o.useMaps, o.thinking)
      tools == ToolList(o.useSearch, o.useMaps)
      config == BuildConfig(tools, o.thinking, activeModel)
      parts == BuildParts(o.message, o.images)
  IN IF Len(parts) = 0
     THEN [threw |-> TRUE, error |-> MessageRequired,
           chats |-> << >>, requests |-> << >>]
     ELSE [threw |-> FALSE, error |-> "",
           chats |-> << [model |-> activeModel, history |-> o.history,
                         config |-> config] >>,
           requests |-> << [message |-> parts] >>]

SendIdle == opts = << >> /\ sent = << >>

ChatIdle ==
  /\ chatMessages = << >> /\ chatInput = << >> /\ chatImageAttachment = "null"
  /\ sends = 0 /\ chatPending = {}
  /\ recorded = 0 /\ recording = 0 /\ transPending = 0
  /\ selectedFile = "null" /\ editMode = "custom" /\ customEditPrompt = ""
  /\ editedImageUrl = "null" /\ editReading = 0 /\ editPending = 0

Init == UiInit /\ DecIdle /\ SendIdle /\ ChatIdle

\* ---------------------------------------------------------- App: actions
\* the textarea's onChange
setTtsText(t) ==
  /\ t # ttsText
  /\ ttsText' = t
  /\ last' = [op |-> "setTtsText"] /\ run' = 0
  /\ UNCHANGED << audioBuffer, isPlaying, isLoading, error, audioContextRef,
                  sourceNodeRef, view, nodes, ctxCreated, speechPending,
                  clicks >>

\* React commits the pending state: the next handlers close over it
Render ==
  /\ view # Snapshot
  /\ view' = Snapshot
  /\ last' = [op |-> "render"] /\ run' = 0
  /\ UNCHANGED << ttsText, audioBuffer, isPlaying, isLoading, error,
                  audioContextRef, sourceNodeRef, nodes, ctxCreated,
                  speechPending, clicks >>

\* click on "Generate Speech" (enabled unless isLoading || !ttsText), up
\* to the await of generateSpeech
handleGenerateSpeech ==
  /\ ~view.isLoading /\ view.ttsText # ""
  /\ speechPending < MaxPending
  /\ isLoading' = TRUE
  /\ audioBuffer' = Null
  /\ error' = NoError
  /\ speechPending' = speechPending + 1
  /\ last' = [op |-> "handleGenerateSpeech"] /\ run' = 0
  /\ UNCHANGED << ttsText, isPlaying, audioContextRef, sourceNodeRef, view,
                  nodes, ctxCreated, clicks >>

\* a character that is neither of the alphabet, nor padding, nor whitespace
Foreign(c) == ~InAlphabet(c) /\ c # "=" /\ c \notin Whitespace

\* the response's audio payload contains such a character
CarriesForeign(response) ==
  \E i \in 1..Len(response.parts) :
     /\ HasData(response.parts[i])
     /\ \E k \in 1..Len(response.parts[i].data) : Foreign(response.parts[i].data[k])

\* the awaited generateSpeech settles: try / catch / finally
speechSettled(response) ==
  /\ speechPending > 0
  /\ LET r == generateSpeech(response) IN
       /\ audioBuffer' = IF r.ok THEN << r.buffer >> ELSE audioBuffer
       /\ error' = IF r.ok THEN error ELSE SpeechFailed
       /\ last' = [op |-> "speechSettled", foreign |-> CarriesForeign(response),
                   outcome |-> IF r.ok THEN "ok" ELSE r.error,
                   before |-> audioBuffer]
  /\ isLoading' = FALSE
  /\ speechPending' = speechPending - 1
  /\ run' = 0
  /\ UNCHANGED << ttsText, isPlaying, audioContextRef, sourceNodeRef, view,
                  nodes, ctxCreated, clicks >>

\* a context built on every call
NeedsContextAlways(ref) == TRUE

\* if (!audioContextRef.current) ...
NeedsContext(ref) == ref = 0

\* a node that is created and stored but never started
StartSourceForgotten(ns) == Append(ns, "created")

\* createBufferSource, connect, onended, start: a new node, sounding
StartSource(ns) == Append(ns, "playing")

\* sourceNodeRef.current?.stop(): InvalidStateError on a node never
\* started, the end of a sounding node, nothing on an ended one
SourceStop(ns, ref) ==
  IF ref = 0 THEN [threw |-> FALSE, nodes |-> ns]
  ELSE IF ns[ref] = "created" THEN [threw |-> TRUE, nodes |-> ns]
  ELSE IF ns[ref] = "playing"
       THEN [threw |-> FALSE, nodes |-> [ns EXCEPT ![ref] = "stopped"]]
  ELSE [threw |-> FALSE, nodes |-> ns]

\* click on the play / pause button, rendered while audioBuffer is set; the
\* callback is the one of the last commit and reads its audioBuffer and
\* isPlaying
toggleAudioPlayback ==
  /\ view.audioBuffer # Null
  /\ clicks < MaxClicks
  /\ clicks' = clicks + 1
  /\ run' = IF Settled THEN 1 ELSE IF run > 0 THEN run + 1 ELSE 0
  /\ IF NeedsContext(audioContextRef)
     THEN /\ ctxCreated' = ctxCreated + 1
          /\ audioContextRef' = ctxCreated + 1
     ELSE UNCHANGED << ctxCreated, audioContextRef >>
  /\ LET wasActive == sourceNodeRef # 0 /\ nodes[sourceNodeRef] = "playing" IN
     IF view.isPlaying
     THEN LET r == SourceStop(nodes, sourceNodeRef) IN
            /\ nodes' = r.nodes
            /\ isPlaying' = IF r.threw THEN isPlaying ELSE FALSE
            /\ last' = [op |-> "toggle", path |-> "stop",
                        wasActive |-> wasActive, threw |-> r.threw]
            /\ UNCHANGED sourceNodeRef
     ELSE /\ nodes' = StartSource(nodes)
          /\ sourceNodeRef' = Len(nodes) + 1
          /\ isPlaying' = TRUE
          /\ last' = [op |-> "toggle", path |-> "play",
                      wasActive |-> wasActive, threw |-> FALSE]
  /\ UNCHANGED << ttsText, audioBuffer, isLoading, error, view,
                  speechPending >>

\* a sounding source reaches the end of its buffer
naturalCompletion(i) ==
  /\ nodes[i] = "playing"
  /\ nodes' = [nodes EXCEPT ![i] = "finished"]
  /\ last' = [op |-> "naturalCompletion", node |-> i] /\ run' = 0
  /\ UNCHANGED << ttsText, audioBuffer, isPlaying, isLoading, error,
                  audioContextRef, sourceNodeRef, view, ctxCreated,
                  speechPending, clicks >>

\* a notification that leaves the flag alone
onendedIgnored(playing) == playing

\* source.onended = () => setIsPlaying(false)
onendedHandler(playing) == FALSE

\* the 'ended' event of a finished or stopped source is dispatched
onended(i) ==
  /\ nodes[i] \in {"finished", "stopped"}
  /\ nodes' = [nodes EXCEPT ![i] = "notified"]
  /\ isPlaying' = onendedHandler(isPlaying)
  /\ last' = [op |-> "onended", node |-> i, natural |-> nodes[i] = "finished"]
  /\ run' = 0
  /\ UNCHANGED << ttsText, audioBuffer, isLoading, error, audioContextRef,
                  sourceNodeRef, view, ctxCreated, speechPending, clicks >>

Next ==
  \/ \E t \in Texts : setTtsText(t) /\ UNCHANGED << decVars, sendVars, chatVars >>
  \/ Render /\ UNCHANGED << decVars, sendVars, chatVars >>
  \/ handleGenerateSpeech /\ UNCHANGED << decVars, sendVars, chatVars >>
  \/ \E response \in Responses : speechSettled(response) /\ UNCHANGED << decVars, sendVars, chatVars >>
  \/ toggleAudioPlayback /\ UNCHANGED << decVars, sendVars, chatVars >>
  \/ \E i \in 1..Len(nodes) : naturalCompletion(i) /\ UNCHANGED << decVars, sendVars, chatVars >>
  \/ \E i \in 1..Len(nodes) : onended(i) /\ UNCHANGED << decVars, sendVars, chatVars >>

Spec == Init /\ [][Next]_vars

\* the audio clock advances, queued events are dispatched, pending state is
\* committed; clicks and responses are under no obligation
LiveSpec ==
  /\ Init /\ [][Next]_vars
  /\ WF_vars(\E i \in 1..Len(nodes) : naturalCompletion(i) /\ UNCHANGED << decVars, sendVars, chatVars >>)
  /\ WF_vars(\E i \in 1..Len(nodes) : onended(i) /\ UNCHANGED << decVars, sendVars, chatVars >>)
  /\ WF_vars(Render /\ UNCHANGED << decVars, sendVars, chatVars >>)

\* ------------------------------------------------------------- DecodeSpec
Payloads == UNION { [1..n -> Chars] : n \in 0..MaxLen }

DecInit ==
  /\ UiInit /\ SendIdle /\ ChatIdle
  /\ payload \in Payloads /\ decodes = << >> /\ spoken = << >>

\* one call decodeAudio(base64, ctx), with or without the context argument
DecodeCall(ctx) ==
  /\ Len(decodes) < MaxDecodes
  /\ decodes' = Append(decodes, [ctx |-> ctx, result |-> decodeAudio(payload, ctx)])
  /\ UNCHANGED << payload, spoken >>

\* one call of generateSpeech whose response carries the payload
SpeechCall ==
  /\ spoken = << >>
  /\ spoken' = << generateSpeech([rejected |-> FALSE,
                                  parts |-> << TextPart, DataPart(payload) >>]) >>
  /\ UNCHANGED << payload, decodes >>

DecNext ==
  \/ \E ctx \in BOOLEAN : DecodeCall(ctx) /\ UNCHANGED << uiVars, sendVars, chatVars >>
  \/ SpeechCall /\ UNCHANGED << uiVars, sendVars, chatVars >>

DecodeSpec == DecInit /\ [][DecNext]_vars

\* ------------------------------------------------------- chat handlers
Apology == "Sorry, I encountered an error. Please try again."
MicNotFound == "No microphone found. Please connect a microphone."
MicDenied == "Microphone access denied. Please allow permissions."
MicUnsupported == "Microphone error: Audio recording is not supported in this browser."
EditFailed == "Failed to edit image."

ChatInputs == { << >>, << "h" >> }
\* a silent recording: response.text || ""
Transcripts == { << >> }
MicOutcomes == {"recording", "NotFoundError", "NotAllowedError", "unsupported"}

\* everything of the text-to-speech side that the other handlers leave alone
ttsVars == << ttsText, audioBuffer, isPlaying, audioContextRef, sourceNodeRef,
              view, nodes, ctxCreated, speechPending, clicks >>
msgVars == << chatMessages, sends, chatPending >>
inputVars == << chatInput, chatImageAttachment >>
micVars == << recorded, recording, transPending >>
formVars == << selectedFile, editMode, customEditPrompt >>
editVars == << editedImageUrl, editReading, editPending >>

\* remote requests awaiting their response
InFlight == Cardinality(chatPending) + transPending + editPending + speechPending

\* handler instances between their first and their last statement
Busy == InFlight + recording + editReading

\* the chat input's onChange
setChatInput(t) ==
  /\ t # chatInput
  /\ chatInput' = t
  /\ last' = [op |-> "setChatInput"] /\ run' = 0
  /\ UNCHANGED << isLoading, error, ttsVars, msgVars, chatImageAttachment,
                  micVars, formVars, editVars >>

\* a file is chosen: fileToBase64, then setChatImageAttachment(base64)
handleChatImageSelect ==
  /\ chatImageAttachment = "null"
  /\ chatImageAttachment' = "img"
  /\ last' = [op |-> "handleChatImageSelect"] /\ run' = 0
  /\ UNCHANGED << isLoading, error, ttsVars, msgVars, chatInput, micVars,
                  formVars, editVars >>

\* the "x" next to "Image attached", rendered while an image is attached
clearAttachment ==
  /\ view.chatImageAttachment # "null"
  /\ chatImageAttachment # "null"
  /\ chatImageAttachment' = "null"
  /\ last' = [op |-> "clearAttachment"] /\ run' = 0
  /\ UNCHANGED << isLoading, error, ttsVars, msgVars, chatInput, micVars,
                  formVars, editVars >>

\* Enter in the input or the send button: the guard, the user message, the
\* cleared input, and sendMessage up to its await; the callback reads the
\* chatInput and chatImageAttachment of the last commit
handleSendMessage ==
  /\ ~(trim(view.chatInput) = << >> /\ view.chatImageAttachment = "null")
  /\ sends < MaxSends
  /\ Busy < MaxPending
  /\ LET k == sends + 1
         newUserMsg == [role |-> "user", text |-> view.chatInput,
                        image |-> view.chatImageAttachment, call |-> k]
         call == sendMessage([message |-> view.chatInput, history |-> << >>,
                   images |-> IF view.chatImageAttachment = "null" THEN << >>
                              ELSE << view.chatImageAttachment >>,
                   model |-> FlashLite, useSearch |-> FALSE,
                   useMaps |-> FALSE, thinking |-> FALSE])
     IN /\ sends' = k
        /\ IF call.threw
           THEN /\ chatMessages' = chatMessages \o
                     << newUserMsg, [role |-> "model", text |-> Apology, call |-> k] >>
                /\ isLoading' = FALSE
                /\ UNCHANGED chatPending
           ELSE /\ chatMessages' = Append(chatMessages, newUserMsg)
                /\ isLoading' = TRUE
                /\ chatPending' = chatPending \cup {k}
        /\ last' = [op |-> "handleSendMessage", call |-> k]
  /\ chatInput' = << >>
  /\ chatImageAttachment' = "null"
  /\ run' = 0
  /\ UNCHANGED << error, ttsVars, micVars, formVars, editVars >>

\* a reply that is dropped when the request fails
ModelMessageOnSuccessOnly(msgs, k, ok) ==
  IF ok THEN Append(msgs, [role |-> "model", text |-> "reply", call |-> k])
  ELSE msgs

\* the reply on success, the apology in the catch
ModelMessage(msgs, k, ok) ==
  Append(msgs, [role |-> "model", text |-> IF ok THEN "reply" ELSE Apology,
                call |-> k])

\* the awaited sendMessage of call k settles: try / catch / finally
chatSettled(k, ok) ==
  /\ k \in chatPending
  /\ chatPending' = chatPending \ {k}
  /\ chatMessages' = ModelMessage(chatMessages, k, ok)
  /\ isLoading' = FALSE
  /\ last' = [op |-> "chatSettled", call |-> k, ok |-> ok] /\ run' = 0
  /\ UNCHANGED << error, ttsVars, sends, inputVars, micVars, formVars, editVars >>

\* the microphone button: getUserMedia fails, or a recorder starts
handleTranscribe(outcome) ==
  /\ IF outcome = "recording"
     THEN /\ recorded < MaxRecordings /\ Busy < MaxPending
          /\ recorded' = recorded + 1 /\ recording' = recording + 1
          /\ UNCHANGED error
     ELSE /\ error' = CASE outcome = "NotFoundError" -> MicNotFound
                        [] outcome = "NotAllowedError" -> MicDenied
                        [] OTHER -> MicUnsupported
          /\ error' # error
          /\ UNCHANGED << recorded, recording >>
  /\ last' = [op |-> "handleTranscribe", outcome |-> outcome] /\ run' = 0
  /\ UNCHANGED << isLoading, ttsVars, msgVars, inputVars, transPending,
                  formVars, editVars >>

\* the recorder stopped and the reader loaded: setIsLoading(true), then
\* transcribeAudio up to its await
onloadend ==
  /\ recording > 0
  /\ recording' = recording - 1
  /\ transPending' = transPending + 1
  /\ isLoading' = TRUE
  /\ last' = [op |-> "onloadend"] /\ run' = 0
  /\ UNCHANGED << error, ttsVars, msgVars, inputVars, recorded, formVars,
                  editVars >>

\* transcribeAudio settles: try / finally, no catch
transcribeSettled(ok, text) ==
  /\ transPending > 0
  /\ transPending' = transPending - 1
  /\ chatInput' = IF ok THEN chatInput \o << " " >> \o text ELSE chatInput
  /\ isLoading' = FALSE
  /\ last' = [op |-> "transcribeSettled", ok |-> ok] /\ run' = 0
  /\ UNCHANGED << error, ttsVars, msgVars, chatImageAttachment, recorded,
                  recording, formVars, editVars >>

\* click on "Generate" in the editor (enabled unless isLoading, or custom
\* mode without a prompt), up to the await of fileToBase64
handleEditImage ==
  /\ ~view.isLoading /\ ~(editMode = "custom" /\ customEditPrompt = "")
  /\ selectedFile # "null"
  /\ Busy < MaxPending
  /\ editedImageUrl' = "null"
  /\ isLoading' = TRUE
  /\ editReading' = editReading + 1
  /\ last' = [op |-> "handleEditImage"] /\ run' = 0
  /\ UNCHANGED << error, ttsVars, msgVars, inputVars, micVars, formVars,
                  editPending >>

\* fileToBase64 settles: editImage is called, or the catch and the finally
fileRead(ok) ==
  /\ editReading > 0
  /\ editReading' = editReading - 1
  /\ IF ok
     THEN /\ editPending' = editPending + 1
          /\ UNCHANGED << isLoading, error >>
     ELSE /\ error' = EditFailed
          /\ isLoading' = FALSE
          /\ UNCHANGED editPending
  /\ last' = [op |-> "fileRead", ok |-> ok] /\ run' = 0
  /\ UNCHANGED << ttsVars, msgVars, inputVars, micVars, formVars,
                  editedImageUrl >>

\* editImage settles: try / catch / finally
editSettled(ok) ==
  /\ editPending > 0
  /\ editPending' = editPending - 1
  /\ editedImageUrl' = IF ok THEN "url" ELSE editedImageUrl
  /\ error' = IF ok THEN error ELSE EditFailed
  /\ isLoading' = FALSE
  /\ last' = [op |-> "editSettled", ok |-> ok] /\ run' = 0
  /\ UNCHANGED << ttsVars, msgVars, inputVars, micVars, formVars, editReading >>

\* the forms as a user may have left them, rendered
ChatInit ==
  /\ ttsText = "hello" /\ audioBuffer = Null /\ isPlaying = FALSE
  /\ isLoading = FALSE /\ error = NoError
  /\ audioContextRef = 0 /\ sourceNodeRef = 0
  /\ nodes = << >> /\ ctxCreated = 0 /\ speechPending = 0
  /\ clicks = 0 /\ last = [op |-> "init"] /\ run = 0
  /\ chatMessages = << >> /\ chatInput = << >> /\ chatImageAttachment = "null"
  /\ sends = 0 /\ chatPending = {}
  /\ recorded = 0 /\ recording = 0 /\ transPending = 0
  /\ selectedFile = "file" /\ editMode = "upscale"
  /\ customEditPrompt = ""
  /\ editedImageUrl = "null" /\ editReading = 0 /\ editPending = 0
  /\ view = [audioBuffer |-> Null, isPlaying |-> FALSE,
             isLoading |-> FALSE, ttsText |-> ttsText,
             chatInput |-> << >>, chatImageAttachment |-> "null"]
  /\ DecIdle /\ SendIdle

\* the chat tab alone: typing, attaching, sending, the replies, the commits
ChatNext ==
  \/ \E t \in ChatInputs : setChatInput(t) /\ UNCHANGED << decVars, sendVars >>
  \/ handleChatImageSelect /\ UNCHANGED << decVars, sendVars >>
  \/ clearAttachment /\ UNCHANGED << decVars, sendVars >>
  \/ handleSendMessage /\ UNCHANGED << decVars, sendVars >>
  \/ \E k \in 1..MaxSends, ok \in BOOLEAN :
       chatSettled(k, ok) /\ UNCHANGED << decVars, sendVars >>
  \/ Render /\ UNCHANGED << decVars, sendVars, chatVars >>

ChatSpec == ChatInit /\ [][ChatNext]_vars

\* every request sent is answered or fails; commits happen
ChatLiveSpec ==
  /\ ChatInit /\ [][ChatNext]_vars
  /\ WF_vars(\E k \in 1..MaxSends, ok \in BOOLEAN :
               chatSettled(k, ok) /\ UNCHANGED << decVars, sendVars >>)
  /\ WF_vars(Render /\ UNCHANGED << decVars, sendVars, chatVars >>)

\* what the text-to-speech request may bring back here: a failure, or a
\* payload of one frame
LoadResponses ==
  { [rejected |-> TRUE, parts |-> << >>],
    [rejected |-> FALSE, parts |-> << DataPart(<<"A","I","A","=">>) >>] }

\* the four handlers that share isLoading, side by side
LoadNext ==
  \/ \E t \in ChatInputs : setChatInput(t) /\ UNCHANGED << decVars, sendVars >>
  \/ handleSendMessage /\ UNCHANGED << decVars, sendVars >>
  \/ \E k \in 1..MaxSends, ok \in BOOLEAN :
       chatSettled(k, ok) /\ UNCHANGED << decVars, sendVars >>
  \/ \E outcome \in MicOutcomes :
       handleTranscribe(outcome) /\ UNCHANGED << decVars, sendVars >>
  \/ onloadend /\ UNCHANGED << decVars, sendVars >>
  \/ \E ok \in BOOLEAN, text \in Transcripts :
       transcribeSettled(ok, text) /\ UNCHANGED << decVars, sendVars >>
  \/ handleEditImage /\ UNCHANGED << decVars, sendVars >>
  \/ \E ok \in BOOLEAN : fileRead(ok) /\ UNCHANGED << decVars, sendVars >>
  \/ \E ok \in BOOLEAN : editSettled(ok) /\ UNCHANGED << decVars, sendVars >>
  \/ Busy < MaxPending /\ handleGenerateSpeech
       /\ UNCHANGED << decVars, sendVars, chatVars >>
  \/ \E response \in LoadResponses :
       speechSettled(response) /\ UNCHANGED << decVars, sendVars, chatVars >>
  \/ Render /\ UNCHANGED << decVars, sendVars, chatVars >>

LoadSpec == ChatInit /\ [][LoadNext]_vars

\* --------------------------------------------------------------- SendSpec
Messages == UNION { [1..n -> {" ", "h"}] : n \in 0..MaxMsg }

ChatOptions ==
  [message : Messages, history : {<< >>}, images : {<< >>, << "img" >>},
   model : {"undefined", FlashLite, Flash, Pro},
   useSearch : BOOLEAN, useMaps : BOOLEAN, thinking : BOOLEAN]

SendInit == UiInit /\ DecIdle /\ ChatIdle /\ opts \in ChatOptions /\ sent = << >>

\* one call sendMessage(opts); a request that was sent resolves or rejects
SendCall(resolves) ==
  /\ sent = << >>
  /\ LET call == sendMessage(opts) IN
       sent' = << [call |-> call,
                   outcome |-> IF call.threw THEN "thrown"
                               ELSE IF resolves THEN "resolved"
                               ELSE "rejected"] >>
  /\ UNCHANGED opts

SendNext == \E resolves \in BOOLEAN : SendCall(resolves) /\ UNCHANGED << uiVars, decVars, chatVars >>

SendSpec == SendInit /\ [][SendNext]_vars

\* ================================================================= claims

\* C1: at most one audio source is sounding at a time, whatever the order
\* of toggle calls and 'ended' notifications.
C1_AtMostOneSounding == Cardinality(Sounding) <= 1

\* C2: two toggle calls back to back from a settled Idle state with a
\* buffer (nothing in between, not even a commit) end in Idle with no
\* source sounding.
C2_DoubleToggleIdle == run = 2 => (~isPlaying /\ Sounding = {})

\* C3: once the play path has started a session, unless a later toggle
\* stops playback, the session's source ends, its notification is delivered
\* and isPlaying is false (a later toggle that starts another session puts
\* that session under the same obligation).
C3_CompletionClearsFlag ==
  (last.op = "toggle" /\ last.path = "play")
    ~> \/ last.op = "toggle" /\ last.path = "stop"
       \/ /\ ~isPlaying /\ sourceNodeRef # 0
          /\ nodes[sourceNodeRef] = "notified"

C3_Witness ==
  /\ last.op = "onended" /\ last.natural /\ last.node = sourceNodeRef
  /\ ~isPlaying

\* C4: the stop path taken while the current source is not sounding (none,
\* or already ended or stopped) raises nothing, changes no source and
\* leaves isPlaying false.
C4_StopIdempotent ==
  (last.op = "toggle" /\ last.path = "stop" /\ ~last.wasActive)
    => /\ ~last.threw
       /\ ~isPlaying
       /\ sourceNodeRef # 0 => nodes[sourceNodeRef] \in {"finished", "stopped", "notified"}

C4_Witness ==
  /\ last.op = "toggle" /\ last.path = "stop" /\ ~last.wasActive
  /\ ~isPlaying /\ sourceNodeRef # 0

\* C5: a payload of N >= 1 bytes, odd N included, decodes to a buffer of
\* floor(N/2) frames (the empty payload is C7's case).
C5_FrameCountLaw ==
  \A k \in 1..Len(decodes) :
     LET bin == atob(payload) IN
     (bin.ok /\ Len(bin.bytes) >= 1)
       => /\ decodes[k].result.ok
          /\ decodes[k].result.buffer.length = Len(bin.bytes) \div 2

\* the signed 16-bit value of a low byte and a high byte
SignedLE(lo, hi) == IF hi >= 128 THEN lo + 256 * hi - 65536 ELSE lo + 256 * hi

\* bytes 00 00, 00 40, FF 7F, 00 80
ExamplePayload == <<"A","A","A","A","Q","P","9","/","A","I","A","=">>
ExampleDecoded == decodeAudio(ExamplePayload, FALSE)

\* C6: sample i of channel 0 of a decoded buffer is v / 32768 for the
\* signed little-endian v of payload bytes 2i and 2i+1, unchanged by the
\* store; the bytes 00 00, 00 40, FF 7F, 00 80 give 0, 16384, 32767, -32768.
C6_ScaleCorrect ==
  /\ ExampleDecoded.ok
  /\ ExampleDecoded.buffer.channelData[1] = << 0, 16384, 32767, -32768 >>
  /\ \A k \in 1..Len(decodes) :
       decodes[k].result.ok =>
         LET buf == decodes[k].result.buffer
             bytes == atob(payload).bytes
         IN /\ Len(buf.channelData[1]) = buf.length
            /\ \A i \in 0..(buf.length - 1) :
                 buf.channelData[1][i + 1] = SignedLE(bytes[2 * i + 1], bytes[2 * i + 2])

C6_Witness ==
  /\ decodes # << >> /\ decodes[1].result.ok
  /\ decodes[1].result.buffer.length = 2
  /\ decodes[1].result.buffer.channelData[1][1] < 0
  /\ decodes[1].result.buffer.channelData[1][2] > 0

\* C7: the zero-length payload decodes to a buffer of zero frames, in
\* decodeAudio and through generateSpeech.
C7_EmptyPayloadDecodes ==
  payload = << >> =>
    /\ \A k \in 1..Len(decodes) :
         decodes[k].result.ok /\ decodes[k].result.buffer.length = 0
    /\ spoken # << >> => (spoken[1].ok /\ spoken[1].buffer.length = 0)

\* the buffers complete decodes of the response payloads can give
WholeBuffers ==
  { decodeAudio(p, FALSE).buffer : p \in {q \in UiPayloads : decodeAudio(q, FALSE).ok} }

\* C8: a payload with a character outside base64 ends in a decode error:
\* the call stores nothing in audioBuffer and sets the error; audioBuffer
\* never holds anything but the buffer of a complete decode.
C8_MalformedRejected ==
  /\ \A p \in UiPayloads :
       (\E k \in 1..Len(p) : Foreign(p[k])) =>
          \A ctx \in BOOLEAN : decodeAudio(p, ctx) = [ok |-> FALSE, error |-> "InvalidCharacterError"]
  /\ (last.op = "speechSettled" /\ last.foreign)
       => /\ last.outcome = "InvalidCharacterError"
          /\ audioBuffer = last.before
          /\ error = SpeechFailed
  /\ audioBuffer # Null => audioBuffer[1] \in WholeBuffers

C8_Witness ==
  /\ last.op = "speechSettled" /\ last.foreign
  /\ audioBuffer = Null /\ error = SpeechFailed

\* C9: every decode of the same payload gives the same outcome, the same
\* frame count and the same samples, with or without a context argument
\* and whatever was decoded before.
C9_Deterministic ==
  \A j, k \in 1..Len(decodes) : decodes[j].result = decodes[k].result

C9_Witness ==
  /\ Len(decodes) = 2 /\ decodes[1].ctx # decodes[2].ctx
  /\ decodes[1].result.ok /\ decodes[1].result.buffer.length = 2

\* C10: audioContextRef is unset exactly while no toggle has run with a
\* buffer, and from the first such toggle on it holds the one context ever
\* constructed.
C10_ContextOnce ==
  /\ clicks = 0 => (audioContextRef = 0 /\ ctxCreated = 0)
  /\ clicks > 0 => (audioContextRef = 1 /\ ctxCreated = 1)

C10_Witness == clicks >= 2 /\ audioContextRef = 1 /\ Len(nodes) >= 1

\* a step of toggleAudioPlayback
ToggleStep == clicks' = clicks + 1

\* C11: isPlaying goes from false to true only by a toggle, from true to
\* false only by a toggle or by the natural completion of a source; a
\* toggle takes the stop path exactly when isPlaying is true and the play
\* path otherwise; nothing else changes isPlaying.
C11_TwoStateMachine ==
  [][ /\ ToggleStep => (last'.path = "stop" <=> isPlaying)
      /\ ToggleStep => (isPlaying' <=> ~isPlaying)
      /\ (~isPlaying /\ isPlaying') => ToggleStep
      /\ (isPlaying /\ ~isPlaying')
           => \/ ToggleStep
              \/ last'.op = "onended" /\ last'.natural ]_vars

\* C12: a toggle while isPlaying is true leaves no source sounding, and
\* the stopped source is never resumed: the toggle after it starts a new
\* source from the beginning of the buffer.
C12_StopThenRestart ==
  [][ /\ (ToggleStep /\ isPlaying) => Sounding' = {}
      /\ (ToggleStep /\ ~isPlaying)
           => /\ Len(nodes') = Len(nodes) + 1
              /\ sourceNodeRef' = Len(nodes')
              /\ nodes'[sourceNodeRef'] = "playing"
              /\ \A i \in 1..Len(nodes) : nodes'[i] = nodes[i] ]_vars

DecodeErrors == {"InvalidCharacterError", "RangeError", "NotSupportedError"}

\* C13: when decodeAudio fails inside generateSpeech the failure reaches
\* handleGenerateSpeech, after which audioBuffer is null, the error is set
\* and isLoading is false.
C13_DecodeFailurePropagates ==
  (last.op = "speechSettled" /\ last.outcome \in DecodeErrors)
    => (audioBuffer = Null /\ error = SpeechFailed /\ ~isLoading)

\* the model asked for, with the parameter's default
Requested == IF opts.model = "undefined" THEN FlashLite ELSE opts.model

\* C14: the chat is created with 'gemini-2.5-flash' if useSearch or useMaps
\* is set, whatever the requested model and thinking; otherwise with
\* 'gemini-3-pro-preview' if thinking is set; otherwise with the requested
\* model, 'gemini-2.5-flash-lite' by default.
C14_ModelPriority ==
  (sent # << >> /\ ~sent[1].call.threw) =>
    LET used == sent[1].call.chats[1].model IN
    /\ (opts.useSearch \/ opts.useMaps) => used = "gemini-2.5-flash"
    /\ (~opts.useSearch /\ ~opts.useMaps /\ opts.thinking)
         => used = "gemini-3-pro-preview"
    /\ (~opts.useSearch /\ ~opts.useMaps /\ ~opts.thinking) => used = Requested
    /\ (~opts.useSearch /\ ~opts.useMaps /\ ~opts.thinking /\ opts.model = "undefined")
         => used = "gemini-2.5-flash-lite"

C14_Witness ==
  /\ sent # << >> /\ ~sent[1].call.threw
  /\ opts.useMaps /\ opts.thinking /\ opts.model = Pro
  /\ sent[1].call.chats[1].model = Flash

\* C15: the config has a thinking budget of 32768 exactly when thinking is
\* set and no tool flag is; its tools are googleSearch exactly when
\* useSearch, googleMaps exactly when useMaps, search first; without a tool
\* flag it has no tools entry.
C15_ConfigShape ==
  (sent # << >> /\ ~sent[1].call.threw) =>
    LET config == sent[1].call.chats[1].config
        wanted == (IF opts.useSearch THEN << "googleSearch" >> ELSE << >>)
                  \o (IF opts.useMaps THEN << "googleMaps" >> ELSE << >>)
    IN /\ "thinkingConfig" \in DOMAIN config
            <=> (opts.thinking /\ ~opts.useSearch /\ ~opts.useMaps)
       /\ "thinkingConfig" \in DOMAIN config
            => config["thinkingConfig"] = [thinkingBudget |-> 32768]
       /\ "tools" \in DOMAIN config <=> (opts.useSearch \/ opts.useMaps)
       /\ "tools" \in DOMAIN config => config["tools"] = wanted

C15_Witness ==
  /\ sent # << >> /\ ~sent[1].call.threw
  /\ opts.useSearch /\ opts.useMaps /\ opts.thinking
  /\ sent[1].call.chats[1].config["tools"] = << "googleSearch", "googleMaps" >>
  /\ "thinkingConfig" \notin DOMAIN sent[1].call.chats[1].config

\* every character of the message is whitespace (the empty message too)
Blank(message) == \A i \in 1..Len(message) : message[i] = " "

\* C16: with a blank message and no image sendMessage fails with 'Message
\* or attachment required', no chat created and no request sent; with a
\* non-blank message or an image it creates one chat and sends one request.
C16_RequiresContent ==
  sent # << >> =>
    LET call == sent[1].call IN
    IF Blank(opts.message) /\ opts.images = << >>
    THEN /\ call.threw /\ call.error = "Message or attachment required"
         /\ call.chats = << >> /\ call.requests = << >>
         /\ sent[1].outcome = "thrown"
    ELSE /\ ~call.threw
         /\ Len(call.chats) = 1 /\ Len(call.requests) = 1
         /\ sent[1].outcome \in {"resolved", "rejected"}

C16_Witness ==
  /\ sent # << >> /\ opts.message = << " ", " " >> /\ opts.images = << >>
  /\ sent[1].outcome = "thrown" /\ sent[1].call.requests = << >>

\* the user messages, and the model messages, that call k has appended
UserMessages(k) ==
  {i \in 1..Len(chatMessages) :
     chatMessages[i].role = "user" /\ chatMessages[i].call = k}

ModelMessages(k) ==
  {i \in 1..Len(chatMessages) :
     chatMessages[i].role = "model" /\ chatMessages[i].call = k}

C17_Accounted ==
  /\ \A i \in 1..Len(chatMessages) : chatMessages[i].call \in 1..sends
  /\ \A k \in 1..sends :
       /\ Cardinality(UserMessages(k)) = 1
       /\ Cardinality(ModelMessages(k)) = IF k \in chatPending THEN 0 ELSE 1
       /\ \A i \in UserMessages(k), j \in ModelMessages(k) : i < j
  /\ last.op = "handleSendMessage" =>
       /\ last.call = sends /\ last.call \in chatPending /\ isLoading
       /\ chatMessages[Len(chatMessages)].role = "user"
       /\ chatMessages[Len(chatMessages)].call = last.call
  /\ last.op = "chatSettled" =>
       /\ ~isLoading /\ last.call \notin chatPending
       /\ chatMessages[Len(chatMessages)] =
            [role |-> "model", call |-> last.call,
             text |-> IF last.ok THEN "reply" ELSE Apology]

\* C17: every accepted handleSendMessage call appends exactly one user
\* message at once, and eventually exactly one model message for it, the
\* reply on success and the fixed apology on failure, with isLoading false
\* right after; no accepted send stays without its model message
C17_SendAnswered ==
  /\ []C17_Accounted
  /\ \A k \in 1..MaxSends :
       (sends >= k) ~> (sends >= k /\ Cardinality(ModelMessages(k)) = 1)

\* two sends in flight together, the first answered, the second failed
C17_Witness ==
  /\ sends = 2 /\ chatPending = {} /\ Len(chatMessages) = 4
  /\ chatMessages[1].role = "user" /\ chatMessages[2].role = "user"
  /\ chatMessages[3] = [role |-> "model", call |-> 1, text |-> "reply"]
  /\ last = [op |-> "chatSettled", call |-> 2, ok |-> FALSE]
  /\ chatMessages[4].text = Apology /\ ~isLoading

\* C18: under any interleaving of the chat-send, transcription, image-edit
\* and speech-generation handlers, isLoading false implies that no remote
\* request is awaiting its response
C18_LoadingCoversRequests == ~isLoading => InFlight = 0

====
